---- MODULE Spec2Model ----
(***************************************************************************)
(* A model of pyOpt's ALGENCAN adapter, ALGENCAN.__solve__ of              *)
(* src/pyOpt/pyALGENCAN/pyALGENCAN.py: the setup of the solver's arguments *)
(* from the problem (variables, groups, constraints), the history          *)
(* (hot-start / recording) handling of the evalfc and evalgjac callbacks,  *)
(* the parallel broadcast of the hot-start decision, the promotion of the  *)
(* temporary log when the solver has returned, and the solution stored in  *)
(* the problem.                                                            *)
(*                                                                         *)
(* Every MPI rank runs __solve__ on its own; the ranks meet only at Bcast. *)
(* The external solver is the environment: it issues the same sequence of  *)
(* callbacks on every rank and then returns.  A Python local that is read  *)
(* before it was assigned raises UnboundLocalError; the exception leaves   *)
(* the callback and the solver call, so that rank's solve is aborted.      *)
(*                                                                         *)
(* Spec runs reference problems serially and in parallel with every        *)
(* history setting; SpecProblems runs a wider family of problems serially  *)
(* without history.                                                        *)
(***************************************************************************)
EXTENDS Integers, Sequences, FiniteSets, TLC

\* ------------------------------------------------------------------ bounds
\* The most callbacks the solver issues in one solve.
MaxCalls == 2
\* The most callback groups the hot-start log holds when the solve starts.
MaxHist == 1

\* The most design variables a problem of the wider family registers.
MaxVars == 3
\* The most constraints a problem of the wider family registers.
MaxCon == 2

\* The ranks other than 0 of a parallel (pll) run: comm.Get_size() = 2.
Workers == {1}
\* The kinds of design variable a problem can register.
Kinds == {"c", "i", "d"}

VARIABLES
  opt_problem, \* per rank: the process's Optimization instance
  store_sol,  \* __solve__'s argument: store the solution in the problem
  slv,        \* per rank: the locals of __solve__ the setup assigns
  store_hst,  \* __solve__'s argument: recording requested
  hot_start,  \* __solve__'s argument: hot-start requested
  same_name,  \* store_hst and hot_start name the same log
  hist0,      \* the entries of the hot-start log when the solve starts
  pll,        \* self.pll
  sto_hst,    \* self.sto_hst: recording is enabled for the solve
  h_start,    \* self.h_start, one per rank (each process has its own self)
  tmp_file,   \* tmp_file, as _setHistory returns it
  fs,         \* the log files on disk: name -> <<>> (missing) or <<file>>
  hos_file,   \* the hot-start handle of rank 0: read counts and closes
  log_closed, \* log_file.close() has been called
  cbs,        \* the callbacks the solver has issued so far, in order
  returned,   \* per rank: algencan.algencan has returned normally
  pc,         \* each rank's position in __solve__
  idx,        \* each rank's number of callbacks begun
  loc,        \* each rank's locals of the running callback
  calls,      \* each rank's invocations of user code in the running step
  ret         \* what each rank's last callback returned to the solver

vars == <<opt_problem, store_sol, slv, store_hst, hot_start, same_name,
          hist0, pll, sto_hst, h_start, tmp_file, fs, hos_file, log_closed,
          cbs, returned, pc, idx, loc, calls, ret>>

\* The ranks of the run: 0 alone in a serial run.
Ranks == IF pll THEN {0} \cup Workers ELSE {0}

\* ------------------------------------------------------------ the problem
\* A number a user function hands back: real part and imaginary part (a
\* numpy complex scalar when the imaginary part is not 0).
Num(a) == [re |-> a, im |-> 0]

\* An Optimization instance: variables of the given kinds in registration
\* order, variable groups of the given lengths in vargroups order (a group
\* is named by its position), one objective, m constraints, no solution.
MkProblem(types, lens, ug, m) ==
  [variables |-> [i \in 1 .. Len(types) |->
                    [type |-> types[i], lower |-> 0 - i, upper |-> i + 1,
                     value |-> i - 1]],
   vargroups |-> [k \in 1 .. Len(lens) |-> [name |-> k, len |-> lens[k]]],
   use_groups |-> ug,
   objectives |-> <<[value |-> Num(0)]>>,
   constraints |-> [j \in 1 .. m |-> [value |-> Num(0)]],
   solutions |-> <<>>]

\* The problem of the solve: every rank registers the same one.
Problem == opt_problem[0]
NVars == Len(Problem.variables)
NCons == Len(Problem.constraints)

\* The design points the solver hands to the callbacks.
Points == {[i \in 1 .. NVars |-> i - 1], [i \in 1 .. NVars |-> i]}
\* The initial point: the values of the variables as registered.
X0 == [i \in 1 .. NVars |-> Problem.variables[i].value]

\* ------------------------------------------------------- the user's model
\* opt_problem.obj_fun at point x: (objective, constraints, fail).  The
\* results are complex at the points whose first coordinate is 0.
ObjFun(x) ==
  LET im == IF x[1] = 0 THEN 1 ELSE 0
  IN  [ff |-> [re |-> x[1] * x[1] + x[Len(x)], im |-> im],
       gg |-> [j \in 1 .. NCons |-> [re |-> j * x[1] * x[Len(x)], im |-> im]],
       fail |-> IF x[1] = 0 THEN 0 ELSE 1]

\* gradient.getGrad at point x: the 1 x n and the m x n array, as rows.
GetGrad(x) ==
  LET n == Len(x)
      d(i, a, b) == (IF i = 1 THEN a ELSE 0) + (IF i = n THEN b ELSE 0)
  IN  [dff |-> <<[i \in 1 .. n |-> d(i, 2 * x[1], 1)]>>,
       dgg |-> [j \in 1 .. NCons |->
                  [i \in 1 .. n |-> d(i, j * x[n], j * x[1])]]]

\* What obj_fun is handed: the flat vector x, or the mapping xg from each
\* group (in group_ids order) to its value.
FlatView(x) == [grouped |-> FALSE, x |-> x, xg |-> <<>>]

\* One invocation of user code, with its argument.
Call(fn, xn) == [fn |-> fn, xn |-> xn]

\* ------------------------------------------------------------ history log
\* The entries one evalfc callback records, and one evalgjac callback.
FcGroup(x) ==
  LET v == ObjFun(x)
  IN  << [id |-> "x", v |-> x], [id |-> "obj", v |-> <<v.ff>>],
         [id |-> "con", v |-> v.gg], [id |-> "fail", v |-> <<v.fail>>] >>

GjGroup(x) ==
  LET d == GetGrad(x)
  IN  << [id |-> "grad_obj", v |-> d.dff], [id |-> "grad_con", v |-> d.dgg] >>

Groups == {FcGroup(x) : x \in Points} \cup {GjGroup(x) : x \in Points}

RECURSIVE Logs(_)
\* The logs an earlier run can have left: up to k callback groups.
Logs(k) ==
  IF k = 0 THEN {<<>>}
  ELSE Logs(k - 1) \cup {l \o g : l \in Logs(k - 1), g \in Groups}

\* The values recorded under identifier id, in order.
RECURSIVE Stream(_, _)
Stream(entries, id) ==
  IF entries = <<>> THEN <<>>
  ELSE LET rest == Stream(Tail(entries), id)
       IN  IF Head(entries).id = id THEN <<Head(entries).v>> \o rest ELSE rest

\* History.read(ident): the next value of every identifier, or hist_end
\* when one of them has no value left.  cnt counts the reads made so far
\* for this group of identifiers.
HistEnd(entries, ids, cnt) ==
  \E id \in ids : Len(Stream(entries, id)) < cnt + 1

ReadVal(entries, id, cnt) == Stream(entries, id)[cnt + 1]

\* The log files: the hot-start log, its temporary sibling, another log.
Files == {<<b, e>> : b \in {"hos", "hos_tmp", "log"}, e \in {"cue", "bin"}}

\* The name log_file records under, as _setHistory chooses it.
LogName == IF hot_start /\ same_name THEN "hos_tmp" ELSE "log"

\* History.write(value, ident): append to the index and the data file.
Append2(f, base, e) ==
  [n \in Files |->
     IF n[1] = base /\ f[n] # <<>>
       THEN <<[src |-> f[n][1].src, entries |-> Append(f[n][1].entries, e)]>>
       ELSE f[n]]

\* The locals of a callback that has just been entered: none is assigned.
\* flushed is not a local: it tells whether the callback has called
\* self.flushFiles().
NoLocals == [bound |-> {}, xn |-> FlatView(<<>>), ff |-> Num(0), gg |-> <<>>,
             fail |-> 0, flag |-> 0, dff |-> <<>>, dgg |-> <<>>,
             flushed |-> FALSE]

\* The locals of __solve__ before the setup has assigned them.
NoSolve == [n |-> 0, xl |-> <<>>, xu |-> <<>>, xx |-> <<>>,
            group_ids |-> <<>>, m |-> 0, ff |-> <<>>]

\* ------------------------------------------------------------------- Init
\* The problems of the reference runs: two continuous variables and one
\* constraint; the same without a constraint (examples/rosenbrock.py); the
\* same with an integer variable.
RefProblems ==
  {MkProblem(<<"c", "c">>, <<1, 1>>, FALSE, 1),
   MkProblem(<<"c", "c">>, <<1, 1>>, FALSE, 0),
   MkProblem(<<"c", "i">>, <<1, 1>>, FALSE, 1)}

RECURSIVE Compositions(_)
\* The ways to cut n variables into consecutive groups: the group lengths.
Compositions(n) ==
  IF n = 0 THEN {<<>>}
  ELSE UNION {{<<k>> \o c : c \in Compositions(n - k)} : k \in 1 .. n}

\* The snapshot an earlier solve of problem p has stored.
Earlier(p) ==
  [variables |-> p.variables, objectives |-> p.objectives,
   constraints |-> p.constraints]

\* The wider family: up to MaxVars variables of any kind, cut into groups
\* in any way (addVar makes a group of one for each variable; use_groups is
\* set once addVarGroup was called), up to MaxCon constraints, with or
\* without a solution stored by an earlier solve.
WideProblems ==
  LET Ones(lens) == \A k \in 1 .. Len(lens) : lens[k] = 1
      Family(n) ==
        {[MkProblem(types, c[1], c[2], m) EXCEPT
            !.solutions = IF old THEN <<Earlier(MkProblem(types, c[1], c[2], m))>>
                                 ELSE <<>>] :
           types \in [1 .. n -> Kinds], m \in 0 .. MaxCon, old \in BOOLEAN,
           c \in {d \in Compositions(n) \X BOOLEAN : d[2] \/ Ones(d[1])}}
  IN  UNION {Family(n) : n \in 1 .. MaxVars}

\* The state in which __solve__ is entered, its arguments being chosen.
Entry ==
  /\ slv = [r \in Ranks |-> NoSolve]
  /\ sto_hst = FALSE
  /\ h_start = [r \in Ranks |-> FALSE]
  /\ tmp_file = FALSE
  /\ fs = [n \in Files |->
             IF n[1] = "hos" /\ hot_start
               THEN <<[src |-> "hos", entries |-> hist0]>> ELSE <<>>]
  /\ hos_file = [fc |-> 0, gj |-> 0, closes |-> 0]
  /\ log_closed = FALSE
  /\ cbs = <<>>
  /\ returned = [r \in Ranks |-> FALSE]
  /\ pc = [r \in Ranks |-> "setup"]
  /\ idx = [r \in Ranks |-> 0]
  /\ loc = [r \in Ranks |-> NoLocals]
  /\ calls = [r \in Ranks |-> <<>>]
  /\ ret = [r \in Ranks |-> <<>>]

\* A solve of a reference problem, serial or parallel, with any history
\* arguments and any hot-start log of up to MaxHist callback groups.
Init ==
  /\ store_hst \in BOOLEAN
  /\ hot_start \in BOOLEAN
  /\ same_name \in BOOLEAN
  /\ (same_name => store_hst /\ hot_start)
  /\ pll \in BOOLEAN
  /\ store_sol = TRUE
  /\ \E p \in RefProblems : opt_problem = [r \in Ranks |-> p]
  /\ hist0 \in (IF hot_start THEN Logs(MaxHist) ELSE {<<>>})
  /\ Entry

\* A serial solve without history of a problem of the wider family.
InitProblems ==
  /\ store_hst = FALSE
  /\ hot_start = FALSE
  /\ same_name = FALSE
  /\ pll = FALSE
  /\ store_sol \in BOOLEAN
  /\ \E p \in WideProblems : opt_problem = [r \in Ranks |-> p]
  /\ hist0 = <<>>
  /\ Entry

\* --------------------------------------------------------------- __solve__
\* _setHistory on rank 0: recording and hot-start as requested; the
\* recording goes to a temporary log when both name the same log.
HistoryFlags ==
  [sto_hst |-> store_hst, h_start |-> hot_start,
   tmp_file |-> (store_hst /\ hot_start /\ same_name)]

\* _setHistory on rank 0 opens the logs: the recording log is created empty.
OpenLogs(f) ==
  IF store_hst
    THEN [n \in Files |->
            IF n[1] = LogName THEN <<[src |-> LogName, entries |-> <<>>]>>
                              ELSE f[n]]
    ELSE f

\* The hot-start flag _setHistory can leave on a rank other than 0: clear,
\* or the one of rank 0.
WorkerFlags == {FALSE, hot_start}

RECURSIVE FlattenVarsFront(_, _)
\* A variant that puts each variable in front of those before it.
FlattenVarsFront(vs, k) ==
  IF k = 0 THEN [xl |-> <<>>, xu |-> <<>>, xx |-> <<>>]
  ELSE LET acc == FlattenVarsFront(vs, k - 1)
       IN  [xl |-> <<vs[k].lower>> \o acc.xl, xu |-> <<vs[k].upper>> \o acc.xu,
            xx |-> <<vs[k].value>> \o acc.xx]

RECURSIVE FlattenVars(_, _)
\* Lines 524-538: xl, xu, xx after the loop has passed the first k
\* variables: each continuous variable appends its lower bound, upper bound
\* and value.
FlattenVars(vs, k) ==
  IF k = 0 THEN [xl |-> <<>>, xu |-> <<>>, xx |-> <<>>]
  ELSE LET acc == FlattenVars(vs, k - 1)
       IN  IF vs[k].type = "c"
             THEN [xl |-> Append(acc.xl, vs[k].lower),
                   xu |-> Append(acc.xu, vs[k].upper),
                   xx |-> Append(acc.xx, vs[k].value)]
             ELSE acc

RECURSIVE GroupLoopNoAdvance(_, _)
\* A variant that does not advance the running index k.
GroupLoopNoAdvance(vg, j) ==
  IF j = 0 THEN [ids |-> <<>>, k |-> 0]
  ELSE LET s == GroupLoopNoAdvance(vg, j - 1)
       IN  [ids |-> Append(s.ids, [name |-> vg[j].name, a |-> s.k,
                                   b |-> s.k + vg[j].len]),
            k |-> s.k]

RECURSIVE GroupLoop(_, _)
\* Lines 541-548: group_ids and the running index k after the loop has
\* passed the first j groups.
GroupLoop(vg, j) ==
  IF j = 0 THEN [ids |-> <<>>, k |-> 0]
  ELSE LET s == GroupLoop(vg, j - 1)
       IN  [ids |-> Append(s.ids, [name |-> vg[j].name, a |-> s.k,
                                   b |-> s.k + vg[j].len]),
            k |-> s.k + vg[j].len]

\* A variant without the test for an unconstrained problem.
SetupRaisesKindsOnly(p) ==
  \E i \in 1 .. Len(p.variables) : p.variables[i].type \in {"i", "d"}

\* Lines 532-535 and 551-564: the setup raises IOError when a variable is
\* integer or discrete, or when the problem has no constraint.
SetupRaises(p) ==
  \/ \E i \in 1 .. Len(p.variables) : p.variables[i].type \in {"i", "d"}
  \/ Len(p.constraints) = 0

\* Lines 522-580: the locals the setup assigns when it does not raise.
SetupLocals(p) ==
  LET flat == FlattenVars(p.variables, Len(p.variables))
  IN  [n |-> Len(p.variables), xl |-> flat.xl, xu |-> flat.xu, xx |-> flat.xx,
       group_ids |-> IF p.use_groups
                       THEN GroupLoop(p.vargroups, Len(p.vargroups)).ids
                       ELSE <<>>,
       m |-> Len(p.constraints),
       ff |-> [i \in 1 .. Len(p.objectives) |-> p.objectives[i].value]]

\* The callback the rank is running.
Cur(r) == cbs[idx[r]]

\* The locals of r with the names in d assigned.
Assign(r, d) ==
  [n \in DOMAIN loc[r] |->
     IF n = "bound" THEN loc[r].bound \cup DOMAIN d
     ELSE IF n \in DOMAIN d THEN d[n] ELSE loc[r][n]]

\* Reading a local that was never assigned raises UnboundLocalError.
Unbound(r, names) == ~(names \subseteq loc[r].bound)

\* A variant that runs the log finalization when a callback raises.
RaisePcFinalize(r) == IF pc[r] = "setup" THEN "raised" ELSE "fin"

\* Where an exception raised in a callback or in __solve__ takes rank r:
\* nothing in __solve__ catches it, so it leaves __solve__.
RaisePc(r) == "raised"

\* Lines 142-607: the setup of the solve on rank r, up to the solver call:
\* _setHistory, then the variables, the groups and the constraints.
Setup(r) ==
  /\ pc[r] = "setup"
  /\ IF r = 0
       THEN /\ sto_hst' = HistoryFlags.sto_hst
            /\ tmp_file' = HistoryFlags.tmp_file
            /\ h_start' = [h_start EXCEPT ![0] = HistoryFlags.h_start]
            /\ fs' = OpenLogs(fs)
       ELSE /\ \E b \in WorkerFlags : h_start' = [h_start EXCEPT ![r] = b]
            /\ UNCHANGED <<sto_hst, tmp_file, fs>>
  /\ IF SetupRaises(opt_problem[r])
       THEN pc' = [pc EXCEPT ![r] = RaisePc(r)] /\ slv' = slv
       ELSE /\ pc' = [pc EXCEPT ![r] = "solver"]
            /\ slv' = [slv EXCEPT ![r] = SetupLocals(opt_problem[r])]
  /\ UNCHANGED <<opt_problem, store_sol, store_hst, hot_start, same_name,
                 hist0, pll, hos_file, log_closed, cbs, returned, idx, loc,
                 calls, ret>>

\* The external solver issues its next callback on rank r (line 610): the
\* callback the ranks ahead of r were given, or a new one.
SolverCall(r) ==
  /\ pc[r] = "solver"
  /\ \E kind \in {"fc", "gjac"}, x \in Points :
       LET cb == [kind |-> kind, x |-> x]
       IN  /\ IF idx[r] < Len(cbs)
                THEN cb = cbs[idx[r] + 1] /\ cbs' = cbs
                ELSE /\ \A q \in Ranks : ~returned[q]
                     /\ Len(cbs) < MaxCalls
                     /\ cbs' = Append(cbs, cb)
           /\ pc' = [pc EXCEPT ![r] = IF kind = "fc" THEN "fc_flush"
                                                   ELSE "gj_enter"]
  /\ idx' = [idx EXCEPT ![r] = idx[r] + 1]
  /\ loc' = [loc EXCEPT ![r] = NoLocals]
  /\ calls' = [calls EXCEPT ![r] = <<>>]
  /\ ret' = [ret EXCEPT ![r] = <<>>]
  /\ UNCHANGED <<opt_problem, store_sol, slv, store_hst, hot_start, same_name,
                 hist0, pll, sto_hst, h_start, tmp_file, fs, hos_file,
                 log_closed, returned>>

\* ------------------------------------------------------------------ evalfc
\* A variant that tests the hot_start argument instead of self.h_start.
ReadsHotStartArg(r) == r = 0 /\ hot_start

\* Lines 388-406: group expansion, flushFiles, flag = 0, and the test of
\* myrank and self.h_start that guards the read.
ReadsHotStart(r) == r = 0 /\ h_start[r]

\* A variant that takes the slice for every group.
GroupValueSlice(x, g) ==
  [name |-> g.name, scalar |-> FALSE, v |-> SubSeq(x, g.a + 1, g.b)]

\* Lines 391-394: the value xg gets for the group with boundaries g: the
\* element x[a] when the group spans one index, else the slice x[a:b].
GroupValue(x, g) ==
  IF g.b - g.a = 1
    THEN [name |-> g.name, scalar |-> TRUE, v |-> <<x[g.a + 1]>>]
    ELSE [name |-> g.name, scalar |-> FALSE, v |-> SubSeq(x, g.a + 1, g.b)]

\* Lines 388-398: xn, the view of x that evalfc builds on rank r.
ExpandGroups(r, x) ==
  IF opt_problem[r].use_groups
    THEN [grouped |-> TRUE, x |-> <<>>,
          xg |-> [k \in 1 .. Len(slv[r].group_ids) |->
                    GroupValue(x, slv[r].group_ids[k])]]
    ELSE FlatView(x)

FcFlush(r) ==
  /\ pc[r] = "fc_flush"
  /\ loc' = [loc EXCEPT ![r] =
               [Assign(r, [xn |-> ExpandGroups(r, Cur(r).x), flag |-> 0])
                  EXCEPT !.flushed = TRUE]]
  /\ pc' = [pc EXCEPT ![r] = IF ReadsHotStart(r) THEN "fc_read"
                             ELSE IF pll THEN "fc_bcast" ELSE "fc_branch"]
  /\ UNCHANGED <<opt_problem, store_sol, slv, store_hst, hot_start, same_name,
                 hist0, pll, sto_hst, h_start, tmp_file, fs, hos_file,
                 log_closed, cbs, returned, idx, calls, ret>>

\* What the end of history does to self.h_start (lines 411, 476).
AfterHistEnd(h, r) == [h EXCEPT ![r] = FALSE]

\* Lines 407-416: hos_file.read of obj, con, fail on rank 0.  The record's
\* fail value is assigned to flag.
FcRead(r) ==
  /\ pc[r] = "fc_read"
  /\ LET e == fs[<<"hos", "bin">>][1].entries
         ids == {"obj", "con", "fail"}
     IN  IF HistEnd(e, ids, hos_file.fc)
           THEN /\ h_start' = AfterHistEnd(h_start, r)
                /\ hos_file' = [hos_file EXCEPT !.closes = @ + 1]
                /\ loc' = loc
           ELSE /\ loc' = [loc EXCEPT ![r] =
                     Assign(r, [ff |-> ReadVal(e, "obj", hos_file.fc)[1],
                                gg |-> ReadVal(e, "con", hos_file.fc),
                                flag |-> ReadVal(e, "fail", hos_file.fc)[1]])]
                /\ hos_file' = [hos_file EXCEPT !.fc = @ + 1]
                /\ h_start' = h_start
  /\ pc' = [pc EXCEPT ![r] = IF pll THEN "fc_bcast" ELSE "fc_branch"]
  /\ UNCHANGED <<opt_problem, store_sol, slv, store_hst, hot_start, same_name,
                 hist0, pll, sto_hst, tmp_file, fs, log_closed, cbs, returned,
                 idx, calls, ret>>

\* Lines 419 and 487: self.h_start = Bcast(self.h_start, root=0).  The
\* broadcast is a rendezvous of all ranks; each leaves with rank 0's flag.
BcastFlag ==
  /\ pll
  /\ \A r \in Ranks : pc[r] \in {"fc_bcast", "gj_bcast"}
  /\ h_start' = [r \in Ranks |-> h_start[0]]
  /\ pc' = [r \in Ranks |-> IF pc[r] = "fc_bcast" THEN "fc_branch"
                                                  ELSE "gj_branch"]
  /\ UNCHANGED <<opt_problem, store_sol, slv, store_hst, hot_start, same_name,
                 hist0, pll, sto_hst, tmp_file, fs, hos_file, log_closed, cbs,
                 returned, idx, loc, calls, ret>>

\* Lines 421-424.  With the flag set in a parallel run the argument list
\* [ff, gg, fail] of the second Bcast is evaluated first: fail is a local
\* that nothing has assigned (the read assigned flag), so the evaluation
\* raises before Bcast is called.  With the flag clear the user objective
\* is invoked.  With the flag set in a serial run neither happens.
FcBranch(r) ==
  /\ pc[r] = "fc_branch"
  /\ IF h_start[r] /\ pll
       THEN /\ pc' = [pc EXCEPT ![r] = IF Unbound(r, {"ff", "gg", "fail"})
                                         THEN RaisePc(r) ELSE "fc_bcastv"]
            /\ UNCHANGED <<loc, calls>>
       ELSE IF ~h_start[r]
         THEN /\ loc' = [loc EXCEPT ![r] = Assign(r, ObjFun(Cur(r).x))]
              /\ calls' = [calls EXCEPT ![r] =
                             Append(@, Call("obj_fun", loc[r].xn))]
              /\ pc' = [pc EXCEPT ![r] = "fc_store"]
         ELSE /\ pc' = [pc EXCEPT ![r] = "fc_store"]
              /\ UNCHANGED <<loc, calls>>
  /\ UNCHANGED <<opt_problem, store_sol, slv, store_hst, hot_start, same_name,
                 hist0, pll, sto_hst, h_start, tmp_file, fs, hos_file,
                 log_closed, cbs, returned, idx, ret>>

\* A variant without the test of myrank.
RecordsAnyRank(r) == sto_hst

\* Lines 427-428 and 502: who records.
Records(r) == r = 0 /\ sto_hst

\* A variant that writes the constraints before the objective.
FcWriteIdsConFirst == <<"x", "con", "obj", "fail">>

\* Lines 426-432: the four writes of rank 0, one step each.  The step at
\* "fc_store" tests the guard and makes the first write.
FcWriteIds == <<"x", "obj", "con", "fail">>
FcWritePc == <<"fc_store", "fc_w_obj", "fc_w_con", "fc_w_fail", "fc_ret">>

FcWriteVal(r, k) ==
  CASE k = 1 -> Cur(r).x
    [] k = 2 -> <<loc[r].ff>>
    [] k = 3 -> loc[r].gg
    [] k = 4 -> <<loc[r].fail>>

FcWriteReads == <<{}, {"ff"}, {"gg"}, {"fail"}>>

FcStore(r) ==
  /\ \E k \in 1 .. 4 :
       /\ pc[r] = FcWritePc[k]
       /\ IF ~Records(r)
            THEN pc' = [pc EXCEPT ![r] = "fc_ret"] /\ fs' = fs
            ELSE IF Unbound(r, FcWriteReads[k])
              THEN pc' = [pc EXCEPT ![r] = RaisePc(r)] /\ fs' = fs
              ELSE /\ fs' = Append2(fs, LogName,
                                    [id |-> FcWriteIds[k], v |-> FcWriteVal(r, k)])
                   /\ pc' = [pc EXCEPT ![r] = FcWritePc[k + 1]]
  /\ UNCHANGED <<opt_problem, store_sol, slv, store_hst, hot_start, same_name,
                 hist0, pll, sto_hst, h_start, tmp_file, hos_file, log_closed,
                 cbs, returned, idx, loc, calls, ret>>

\* A variant that hands back flag, which line 404 set to 0.
FcFlagZero(r) == loc[r].flag

\* The flag evalfc hands back to the solver (line 447).
FcFlag(r) == loc[r].fail

\* v.astype(float): the real part of v.
AsFloat(v) == [re |-> v.re, im |-> 0]

\* Lines 435-438 and 442-445: a complex value is converted, another is
\* taken as it is.
Coerce(v) == IF v.im # 0 THEN AsFloat(v) ELSE v

\* Lines 434-447: f and g are filled from ff and gg, and f, g, fail are
\* returned to the solver.
FcReturn(r) ==
  /\ pc[r] = "fc_ret"
  /\ IF Unbound(r, {"ff", "gg", "fail"})
       THEN pc' = [pc EXCEPT ![r] = RaisePc(r)] /\ ret' = ret
       ELSE /\ ret' = [ret EXCEPT ![r] =
                        <<[f |-> Coerce(loc[r].ff),
                           g |-> [i \in 1 .. Len(opt_problem[r].constraints) |->
                                    Coerce(loc[r].gg[i])],
                           fail |-> FcFlag(r)]>>]
            /\ pc' = [pc EXCEPT ![r] = "solver"]
  /\ UNCHANGED <<opt_problem, store_sol, slv, store_hst, hot_start, same_name,
                 hist0, pll, sto_hst, h_start, tmp_file, fs, hos_file,
                 log_closed, cbs, returned, idx, loc, calls>>

\* ---------------------------------------------------------------- evalgjac
\* Lines 471-472: evalgjac enters the hot-start block only with its own
\* self.h_start set, and only rank 0 reads.  evalgjac does not flush.
GjEnter(r) ==
  /\ pc[r] = "gj_enter"
  /\ pc' = [pc EXCEPT ![r] = IF ~h_start[r] THEN "gj_branch"
                             ELSE IF r = 0 THEN "gj_read" ELSE "gj_bcast"]
  /\ UNCHANGED <<opt_problem, store_sol, slv, store_hst, hot_start, same_name,
                 hist0, pll, sto_hst, h_start, tmp_file, fs, hos_file,
                 log_closed, cbs, returned, idx, loc, calls, ret>>

\* Lines 473-484: hos_file.read of grad_obj, grad_con on rank 0.
GjRead(r) ==
  /\ pc[r] = "gj_read"
  /\ LET e == fs[<<"hos", "bin">>][1].entries
         ids == {"grad_obj", "grad_con"}
     IN  IF HistEnd(e, ids, hos_file.gj)
           THEN /\ h_start' = AfterHistEnd(h_start, r)
                /\ hos_file' = [hos_file EXCEPT !.closes = @ + 1]
                /\ loc' = loc
           ELSE /\ loc' = [loc EXCEPT ![r] =
                     Assign(r, [dff |-> ReadVal(e, "grad_obj", hos_file.gj),
                                dgg |-> ReadVal(e, "grad_con", hos_file.gj)])]
                /\ hos_file' = [hos_file EXCEPT !.gj = @ + 1]
                /\ h_start' = h_start
  /\ pc' = [pc EXCEPT ![r] = IF pll THEN "gj_bcast" ELSE "gj_branch"]
  /\ UNCHANGED <<opt_problem, store_sol, slv, store_hst, hot_start, same_name,
                 hist0, pll, sto_hst, tmp_file, fs, log_closed, cbs, returned,
                 idx, calls, ret>>

\* Lines 489-499.  With the flag set in a parallel run the argument list
\* [dff, dgg] of the second Bcast is evaluated: on a rank other than 0
\* nothing has assigned dff, so it raises; rank 0 enters Bcast and waits
\* there ("gj_bcastv") for ranks that never come.  With the flag clear the
\* user objective is invoked with the flat x, then gradient.getGrad.
GjBranch(r) ==
  /\ pc[r] = "gj_branch"
  /\ IF h_start[r] /\ pll
       THEN /\ pc' = [pc EXCEPT ![r] = IF Unbound(r, {"dff", "dgg"})
                                         THEN RaisePc(r) ELSE "gj_bcastv"]
            /\ UNCHANGED <<loc, calls>>
       ELSE IF ~h_start[r]
         THEN /\ loc' = [loc EXCEPT ![r] =
                           Assign(r, ObjFun(Cur(r).x) @@ GetGrad(Cur(r).x))]
              /\ calls' = [calls EXCEPT ![r] =
                             @ \o <<Call("obj_fun", FlatView(Cur(r).x)),
                                    Call("getGrad", FlatView(Cur(r).x))>>]
              /\ pc' = [pc EXCEPT ![r] = "gj_store"]
         ELSE /\ pc' = [pc EXCEPT ![r] = "gj_store"]
              /\ UNCHANGED <<loc, calls>>
  /\ UNCHANGED <<opt_problem, store_sol, slv, store_hst, hot_start, same_name,
                 hist0, pll, sto_hst, h_start, tmp_file, fs, hos_file,
                 log_closed, cbs, returned, idx, ret>>

\* Lines 501-504: the two writes of rank 0, one step each.
GjWriteIds == <<"grad_obj", "grad_con">>
GjWritePc == <<"gj_store", "gj_w_con", "gj_ret">>

GjStore(r) ==
  /\ \E k \in 1 .. 2 :
       /\ pc[r] = GjWritePc[k]
       /\ IF ~Records(r)
            THEN pc' = [pc EXCEPT ![r] = "gj_ret"] /\ fs' = fs
            ELSE IF Unbound(r, {"dff", "dgg"})
              THEN pc' = [pc EXCEPT ![r] = RaisePc(r)] /\ fs' = fs
              ELSE /\ fs' = Append2(fs, LogName,
                        [id |-> GjWriteIds[k],
                         v |-> IF k = 1 THEN loc[r].dff ELSE loc[r].dgg])
                   /\ pc' = [pc EXCEPT ![r] = GjWritePc[k + 1]]
  /\ UNCHANGED <<opt_problem, store_sol, slv, store_hst, hot_start, same_name,
                 hist0, pll, sto_hst, h_start, tmp_file, hos_file, log_closed,
                 cbs, returned, idx, loc, calls, ret>>

RECURSIVE JacLoopVarMajor(_, _, _, _, _)
\* A variant with the loop over the variables outside.
JacLoopVarMajor(buf, dgg, sz, jj, ii) ==
  IF ii = sz.n THEN buf
  ELSE IF jj = sz.m THEN JacLoopVarMajor(buf, dgg, sz, 0, ii + 1)
  ELSE JacLoopVarMajor([jcfun |-> Append(buf.jcfun, jj + 1),
                        jcvar |-> Append(buf.jcvar, ii + 1),
                        jcval |-> Append(buf.jcval, dgg[jj + 1][ii + 1]),
                        jcnnz |-> buf.jcnnz + 1], dgg, sz, jj + 1, ii)

RECURSIVE JacLoop(_, _, _, _, _)
\* Lines 510-517: the constraint buffers when the nested loop over the m
\* constraints and the n variables of the problem is about to handle
\* constraint jj (from 0) and variable ii (from 0); buf is what the
\* iterations before have written.
JacLoop(buf, dgg, sz, jj, ii) ==
  IF jj = sz.m THEN buf
  ELSE IF ii = sz.n THEN JacLoop(buf, dgg, sz, jj + 1, 0)
  ELSE JacLoop([jcfun |-> Append(buf.jcfun, jj + 1),
                jcvar |-> Append(buf.jcvar, ii + 1),
                jcval |-> Append(buf.jcval, dgg[jj + 1][ii + 1]),
                jcnnz |-> buf.jcnnz + 1], dgg, sz, jj, ii + 1)

\* Lines 506-519: what evalgjac hands back on rank r for the arrays dff and
\* dgg.
FillJac(r, dff, dgg) ==
  LET sz == [m |-> Len(opt_problem[r].constraints),
             n |-> Len(opt_problem[r].variables)]
  IN  [jfval |-> [i \in 1 .. sz.n |-> dff[1][i]]]
        @@ JacLoop([jcfun |-> <<>>, jcvar |-> <<>>, jcval |-> <<>>,
                    jcnnz |-> 0], dgg, sz, 0, 0)

\* Lines 506-519: the buffers are filled from dff and dgg and returned with
\* fail, a local that only the live branch assigns.
GjReturn(r) ==
  /\ pc[r] = "gj_ret"
  /\ IF Unbound(r, {"dff", "dgg", "fail"})
       THEN pc' = [pc EXCEPT ![r] = RaisePc(r)] /\ ret' = ret
       ELSE /\ ret' = [ret EXCEPT ![r] =
                        <<FillJac(r, loc[r].dff, loc[r].dgg)
                            @@ [fail |-> loc[r].fail]>>]
            /\ pc' = [pc EXCEPT ![r] = "solver"]
  /\ UNCHANGED <<opt_problem, store_sol, slv, store_hst, hot_start, same_name,
                 hist0, pll, sto_hst, h_start, tmp_file, fs, hos_file,
                 log_closed, cbs, returned, idx, loc, calls>>

\* ------------------------------------------------- after algencan.algencan
\* The point xx the solver leaves.
FinalX == IF cbs = <<>> THEN X0 ELSE cbs[Len(cbs)].x

\* The objective value the solver leaves in its argument ff: the one it
\* was handed for the point it leaves, if it asked for any.
SolverF(r) ==
  IF cbs = <<>> THEN slv[r].ff ELSE <<Coerce(ObjFun(FinalX).ff)>>

\* Line 643: the solver returns on rank r, after the same callbacks as on
\* every other rank.  It has overwritten its arguments xx and ff.
SolverReturn(r) ==
  /\ pc[r] = "solver"
  /\ idx[r] = Len(cbs)
  /\ returned' = [returned EXCEPT ![r] = TRUE]
  /\ pc' = [pc EXCEPT ![r] = "fin"]
  /\ calls' = [calls EXCEPT ![r] = <<>>]
  /\ slv' = [slv EXCEPT ![r].xx = FinalX, ![r].ff = SolverF(r)]
  /\ UNCHANGED <<opt_problem, store_sol, store_hst, hot_start, same_name,
                 hist0, pll, sto_hst, h_start, tmp_file, fs, hos_file,
                 log_closed, cbs, idx, loc, ret>>

\* Lines 645-648: who finalizes the logs.
Finalizes(r) == r = 0 /\ sto_hst

\* Lines 645-648: log_file.close() on rank 0 when recording.
FinLogClose(r) ==
  /\ pc[r] = "fin"
  /\ IF Finalizes(r)
       THEN /\ log_closed' = TRUE
            /\ pc' = [pc EXCEPT ![r] = IF tmp_file THEN "fin_hos" ELSE "post"]
       ELSE /\ log_closed' = log_closed
            /\ pc' = [pc EXCEPT ![r] = "post"]
  /\ UNCHANGED <<opt_problem, store_sol, slv, store_hst, hot_start, same_name,
                 hist0, pll, sto_hst, h_start, tmp_file, fs, hos_file, cbs,
                 returned, idx, loc, calls, ret>>

\* Line 649: hos_file.close().
FinHosClose(r) ==
  /\ pc[r] = "fin_hos"
  /\ hos_file' = [hos_file EXCEPT !.closes = @ + 1]
  /\ pc' = [pc EXCEPT ![r] = "fin_rm_cue"]
  /\ UNCHANGED <<opt_problem, store_sol, slv, store_hst, hot_start, same_name,
                 hist0, pll, sto_hst, h_start, tmp_file, fs, log_closed, cbs,
                 returned, idx, loc, calls, ret>>

\* Lines 651-652: os.remove(name + '.cue'), then os.remove(name + '.bin').
FinRemove(r) ==
  /\ \E st \in {<<"fin_rm_cue", "cue", "fin_rm_bin">>,
                <<"fin_rm_bin", "bin", "fin_mv_cue">>} :
       /\ pc[r] = st[1]
       /\ IF fs[<<"hos", st[2]>>] = <<>>
            THEN pc' = [pc EXCEPT ![r] = RaisePc(r)] /\ fs' = fs
            ELSE /\ fs' = [fs EXCEPT ![<<"hos", st[2]>>] = <<>>]
                 /\ pc' = [pc EXCEPT ![r] = st[3]]
  /\ UNCHANGED <<opt_problem, store_sol, slv, store_hst, hot_start, same_name,
                 hist0, pll, sto_hst, h_start, tmp_file, hos_file, log_closed,
                 cbs, returned, idx, loc, calls, ret>>

\* Lines 653-654: os.rename(name + '_tmp.cue', name + '.cue'), then the
\* same for '.bin'.
FinRename(r) ==
  /\ \E st \in {<<"fin_mv_cue", "cue", "fin_mv_bin">>,
                <<"fin_mv_bin", "bin", "post">>} :
       /\ pc[r] = st[1]
       /\ IF fs[<<"hos_tmp", st[2]>>] = <<>>
            THEN pc' = [pc EXCEPT ![r] = RaisePc(r)] /\ fs' = fs
            ELSE /\ fs' = [fs EXCEPT ![<<"hos", st[2]>>] = fs[<<"hos_tmp", st[2]>>],
                                     ![<<"hos_tmp", st[2]>>] = <<>>]
                 /\ pc' = [pc EXCEPT ![r] = st[3]]
  /\ UNCHANGED <<opt_problem, store_sol, slv, store_hst, hot_start, same_name,
                 hist0, pll, sto_hst, h_start, tmp_file, hos_file, log_closed,
                 cbs, returned, idx, loc, calls, ret>>

\* A variant that also asks the gradient engine at the final point.
PostCallsGrad(r) == <<Call("obj_fun", FlatView(FinalX)),
                      Call("getGrad", FlatView(FinalX))>>

\* Line 659: the user objective is invoked once more, at the final point.
PostCalls(r) == <<Call("obj_fun", FlatView(FinalX))>>

\* copy.deepcopy(es) and the loop that sets the value of the i-th copy to
\* vals[i] (lines 673-691).
WithValues(es, vals) ==
  [i \in 1 .. Len(es) |-> [es[i] EXCEPT !.value = vals[i]]]

\* Lines 673-691: sol_vars, sol_objs and sol_cons on rank r, gg being what
\* line 659 got from the user objective.
Snapshot(r, gg) ==
  [variables |-> WithValues(opt_problem[r].variables, slv[r].xx),
   objectives |-> WithValues(opt_problem[r].objectives, slv[r].ff),
   constraints |-> IF slv[r].m > 0
                     THEN WithValues(opt_problem[r].constraints, gg)
                     ELSE <<>>]

\* A variant that sets the values in the problem's own entities.
AssembledInPlace(p, sol) ==
  [p EXCEPT !.variables = sol.variables, !.objectives = sol.objectives,
            !.constraints = sol.constraints]

\* Lines 673-691: the problem when the snapshot sol has been assembled.
\* The values are set in deep copies; the problem's entities keep theirs.
Assembled(p, sol) == p

\* Optimization.addSol: the snapshot is stored after those stored before.
AddSol(p, sol) == [p EXCEPT !.solutions = Append(@, sol)]

\* Lines 659-716: the evaluation at the final point and, with store_sol,
\* the snapshot and its registration; __solve__ returns.
PostEval(r) ==
  /\ pc[r] = "post"
  /\ calls' = [calls EXCEPT ![r] = @ \o PostCalls(r)]
  /\ opt_problem' =
       [opt_problem EXCEPT ![r] =
          IF store_sol
            THEN LET sol == Snapshot(r, ObjFun(FinalX).gg)
                 IN  AddSol(Assembled(@, sol), sol)
            ELSE @]
  /\ pc' = [pc EXCEPT ![r] = "done"]
  /\ UNCHANGED <<store_sol, slv, store_hst, hot_start, same_name, hist0, pll,
                 sto_hst, h_start, tmp_file, fs, hos_file, log_closed, cbs,
                 returned, idx, loc, ret>>

Next ==
  \/ \E r \in Ranks : Setup(r)
  \/ \E r \in Ranks : SolverCall(r)
  \/ \E r \in Ranks : FcFlush(r)
  \/ \E r \in Ranks : FcRead(r)
  \/ BcastFlag
  \/ \E r \in Ranks : FcBranch(r)
  \/ \E r \in Ranks : FcStore(r)
  \/ \E r \in Ranks : FcReturn(r)
  \/ \E r \in Ranks : GjEnter(r)
  \/ \E r \in Ranks : GjRead(r)
  \/ \E r \in Ranks : GjBranch(r)
  \/ \E r \in Ranks : GjStore(r)
  \/ \E r \in Ranks : GjReturn(r)
  \/ \E r \in Ranks : SolverReturn(r)
  \/ \E r \in Ranks : FinLogClose(r)
  \/ \E r \in Ranks : FinHosClose(r)
  \/ \E r \in Ranks : FinRemove(r)
  \/ \E r \in Ranks : FinRename(r)
  \/ \E r \in Ranks : PostEval(r)

Spec == Init /\ [][Next]_vars

\* The steps of a serial solve without history.
NextProblems ==
  \/ Setup(0)
  \/ SolverCall(0)
  \/ FcFlush(0)
  \/ FcBranch(0)
  \/ FcStore(0)
  \/ FcReturn(0)
  \/ GjEnter(0)
  \/ GjBranch(0)
  \/ GjStore(0)
  \/ GjReturn(0)
  \/ SolverReturn(0)
  \/ FinLogClose(0)
  \/ PostEval(0)

\* The serial solves without history of the problems of the wider family.
SpecProblems == InitProblems /\ [][NextProblems]_vars

\* ------------------------------------------------------------- the claims
\* Rank r is in, or has just left, an evalfc (evalgjac) callback.
InFc(r) == idx[r] > 0 /\ ~returned[r] /\ Cur(r).kind = "fc"
InGj(r) == idx[r] > 0 /\ ~returned[r] /\ Cur(r).kind = "gjac"

\* The positions of evalfc (evalgjac) after lines 421-424 (489-499).
FcAfterBranch == {"fc_store", "fc_w_obj", "fc_w_con", "fc_w_fail", "fc_ret"}
GjAfterBranch == {"gj_store", "gj_w_con", "gj_ret", "gj_bcastv"}
CallbackPcs == {"fc_flush", "fc_read", "fc_bcast", "fc_branch", "gj_enter",
                "gj_read", "gj_bcast", "gj_branch"}
                 \cup FcAfterBranch \cup GjAfterBranch

\* The number of evalfc (evalgjac) callbacks rank r has begun.
FcSeen(r) == Cardinality({i \in 1 .. idx[r] : cbs[i].kind = "fc"})
GjSeen(r) == Cardinality({i \in 1 .. idx[r] : cbs[i].kind = "gjac"})

\* The k-th record of the hot-start log, as evalfc (evalgjac) hands it back.
RecFc(k) == [f |-> Stream(hist0, "obj")[k][1], g |-> Stream(hist0, "con")[k],
             fail |-> Stream(hist0, "fail")[k][1]]
RecGj(k) == [jfval |-> Stream(hist0, "grad_obj")[k],
             jcval |-> Stream(hist0, "grad_con")[k]]

\* Both files of log b are there, made as log src, with the same entries.
PairOf(b, src) ==
  /\ fs[<<b, "cue">>] # <<>>
  /\ fs[<<b, "bin">>] # <<>>
  /\ fs[<<b, "cue">>][1].src = src
  /\ fs[<<b, "bin">>] = fs[<<b, "cue">>]

\* C1: when the recording went to the temporary log, the canonical pair
\* name.cue / name.bin is in every state either the complete original pair
\* or the complete promoted temporary pair.
C1_PromotionAllOrNothing ==
  (hot_start /\ same_name) => (PairOf("hos", "hos") \/ PairOf("hos", "hos_tmp"))

\* C2: in a parallel run, in every evalfc callback only rank 0 reads the
\* hot-start log, the user objective is invoked only on ranks that hold
\* rank 0's decision "not active", and a rank that has passed lines 421-424
\* with the flag active holds the replayed values of the record read.
C2_DecideThenBroadcast ==
  pll => \A r \in Ranks :
    InFc(r) =>
      /\ (r # 0 => pc[r] # "fc_read")
      /\ (calls[r] # <<>> => ~h_start[0] /\ ~h_start[r])
      /\ (h_start[r] /\ pc[r] \in FcAfterBranch \cup {"solver", "raised"}) =>
           /\ pc[r] # "raised"
           /\ {"ff", "gg", "fail"} \subseteq loc[r].bound
           /\ loc[r].ff = RecFc(FcSeen(r)).f
           /\ loc[r].gg = RecFc(FcSeen(r)).g
           /\ loc[r].fail = RecFc(FcSeen(r)).fail

\* C3: in a parallel run no rank waits at a broadcast that another rank
\* never reaches, and two ranks that have finished the same callback hold
\* the same hot-start flag and have taken the same branch.
C3_RanksNeverDiverge ==
  pll => \A r \in Ranks, q \in Ranks :
    /\ pc[r] \in {"fc_bcast", "gj_bcast", "gj_bcastv"} =>
         pc[q] \notin {"raised", "done"}
    /\ (pc[r] = "solver" /\ pc[q] = "solver" /\ idx[r] = idx[q] /\ idx[r] > 0) =>
         (h_start[r] = h_start[q] /\ calls[r] = calls[q])

\* C4: an evalfc callback answered from the hot-start log does not raise,
\* does not invoke the user objective, and hands the solver the objective,
\* constraints and fail flag of the record read.
C4_ReplayReturnsRecord ==
  \A r \in Ranks :
    (InFc(r) /\ h_start[r] /\ pc[r] \in FcAfterBranch \cup {"solver", "raised"}) =>
      /\ pc[r] # "raised"
      /\ calls[r] = <<>>
      /\ (pc[r] = "solver" => ret[r] = <<RecFc(FcSeen(r))>>)

\* C5: in an evalgjac callback user code (obj_fun, getGrad) runs only with
\* the hot-start flag clear, and a callback answered from the log does not
\* raise, runs no user code and hands the solver the recorded gradients.
C5_GradientReplay ==
  \A r \in Ranks :
    InGj(r) =>
      /\ (calls[r] # <<>> => ~h_start[r])
      /\ (h_start[r] /\ pc[r] \in GjAfterBranch \cup {"solver", "raised"}) =>
           /\ pc[r] # "raised"
           /\ calls[r] = <<>>
           /\ (pc[r] = "solver" =>
                 /\ ret[r][1].jfval = RecGj(GjSeen(r)).jfval
                 /\ ret[r][1].jcval = RecGj(GjSeen(r)).jcval)

\* C6: once rank 0's hot-start flag is clear it stays clear, and no rank's
\* flag is set again after that; once the hot-start handle was closed (the
\* read reported the end of the history) no step reads from it again.
C6_CursorMonotone ==
  [][ /\ \A r \in Ranks :
           (pc[0] # "setup" /\ pc[r] # "setup" /\ ~h_start[0] /\ ~h_start[r])
             => ~h_start'[r]
      /\ hos_file.closes > 0 =>
           /\ hos_file'.fc = hos_file.fc
           /\ hos_file'.gj = hos_file.gj
           /\ pc'[0] \notin {"fc_read", "gj_read"} ]_vars

C6_Witness ==
  /\ hot_start /\ hos_file.closes = 1 /\ ~h_start[0]
  /\ idx[0] = 2 /\ pc[0] \in {"fc_store", "gj_store"} /\ calls[0] # <<>>

\* C7: every step that changes a log file, closes the recording log or
\* touches the hot-start handle is a step of rank 0 alone.
C7_OnlyRankZeroWrites ==
  [][ (fs' # fs \/ log_closed' # log_closed \/ hos_file' # hos_file) =>
        \A r \in Ranks \ {0} : pc'[r] = pc[r] ]_vars

C7_Witness ==
  /\ pll /\ sto_hst /\ idx[1] > 0 /\ pc[1] = "done" /\ pc[0] = "done"
  /\ fs[<<LogName, "bin">>] # <<>>
  /\ Len(fs[<<LogName, "bin">>][1].entries) > 0

\* C8: until algencan.algencan has returned normally on rank 0, both files
\* of the hot-start log are there with the entries they had when the solve
\* started, and the temporary log, once created, is there.
C8_OriginalIntactUntilReturn ==
  (hot_start /\ ~returned[0]) =>
    /\ fs[<<"hos", "cue">>] = <<[src |-> "hos", entries |-> hist0]>>
    /\ fs[<<"hos", "bin">>] = <<[src |-> "hos", entries |-> hist0]>>
    /\ tmp_file => (fs[<<"hos_tmp", "cue">>] # <<>> /\ fs[<<"hos_tmp", "bin">>] # <<>>)

C8_Witness ==
  /\ tmp_file /\ pc[0] = "raised" /\ ~returned[0]
  /\ Len(fs[<<"hos_tmp", "bin">>][1].entries) = 3

\* C9: an evalfc callback invokes the user objective at most once; one that
\* evaluates live and returns has invoked it exactly once, at the point of
\* the callback, and hands the solver the fail flag the objective returned.
C9_FailPropagated ==
  \A r \in Ranks :
    InFc(r) =>
      /\ Len(calls[r]) <= 1
      /\ (pc[r] = "solver" /\ ~h_start[r]) =>
           /\ calls[r] = <<Call("obj_fun", ExpandGroups(r, Cur(r).x))>>
           /\ ret[r] # <<>>
           /\ ret[r][1].fail = ObjFun(Cur(r).x).fail

C9_Witness ==
  \E r \in Ranks :
    /\ InFc(r) /\ pc[r] = "solver" /\ ret[r] # <<>>
    /\ ret[r][1].fail = 1 /\ Len(calls[r]) = 1

\* C10, as claimed: once algencan.algencan has returned on a rank, that
\* rank does not invoke the user objective or the gradient engine again.
C10_NoEvalAfterReturn ==
  \A r \in Ranks : returned[r] => calls[r] = <<>>

\* C10, amended: once algencan.algencan has returned on a rank, that rank
\* runs no callback and never invokes the gradient engine; it invokes the
\* user objective exactly once more, at the final point (line 659).
C10_OnlyFinalEvalAfterReturn ==
  \A r \in Ranks :
    returned[r] =>
      /\ pc[r] \notin CallbackPcs
      /\ calls[r] \in {<<>>, <<Call("obj_fun", FlatView(FinalX))>>}
      /\ (pc[r] = "done" <=> calls[r] # <<>>)

C10_Witness ==
  \E r \in Ranks : returned[r] /\ pc[r] = "done" /\ idx[r] > 0 /\ calls[r] # <<>>

\* The problem has a variable that is not continuous, or no constraint.
Unsupported(p) ==
  \/ \E i \in 1 .. Len(p.variables) : p.variables[i].type # "c"
  \/ Len(p.constraints) = 0

\* C11: a solve of a problem with an integer or discrete variable, or with
\* no constraint, gets no further than the setup, where it raises: the
\* solver is never called, no callback runs and the user objective is never
\* invoked; so whenever the solver has been called, every registered
\* variable is continuous.
C11_RejectedBeforeEvaluation ==
  \A r \in Ranks :
    /\ Unsupported(opt_problem[r]) =>
         /\ pc[r] \in {"setup", "raised"}
         /\ cbs = <<>> /\ idx[r] = 0 /\ calls[r] = <<>> /\ ~returned[r]
         /\ slv[r] = NoSolve
    /\ pc[r] \notin {"setup", "raised"} =>
         \A i \in 1 .. Len(opt_problem[r].variables) :
           opt_problem[r].variables[i].type = "c"

\* The unconstrained problem of examples/rosenbrock.py has been rejected.
C11_Witness ==
  /\ pc[0] = "raised" /\ NVars = 2 /\ NCons = 0
  /\ \A i \in 1 .. NVars : Problem.variables[i].type = "c"
  /\ cbs = <<>> /\ calls[0] = <<>>

\* C12: when the problem uses variable groups, every invocation of the
\* user objective by the adapter is handed the grouped view.
C12_GroupedViewEverywhere ==
  \A r \in Ranks :
    opt_problem[r].use_groups =>
      \A k \in 1 .. Len(calls[r]) :
        calls[r][k].fn = "obj_fun" => calls[r][k].xn.grouped

\* C13: an evalgjac callback that returns for a problem of m constraints
\* and n variables hands back jcnnz = m*n and, for every k in 0 .. m*n-1,
\* jcfun[k] = k div n + 1, jcvar[k] = k mod n + 1 and
\* jcval[k] = dgg[k div n, k mod n]; and jfval[i] = dff[0, i] for every i.
C13_JacobianLayout ==
  \A r \in Ranks :
    (InGj(r) /\ pc[r] = "solver" /\ ret[r] # <<>>) =>
      LET b == ret[r][1]
          n == Len(opt_problem[r].variables)
          m == Len(opt_problem[r].constraints)
      IN  /\ b.jcnnz = m * n
          /\ Len(b.jcfun) = m * n /\ Len(b.jcvar) = m * n /\ Len(b.jcval) = m * n
          /\ \A k \in 0 .. m * n - 1 :
               /\ b.jcfun[k + 1] = (k \div n) + 1
               /\ b.jcvar[k + 1] = (k % n) + 1
               /\ b.jcval[k + 1] = loc[r].dgg[(k \div n) + 1][(k % n) + 1]
          /\ Len(b.jfval) = n
          /\ \A i \in 1 .. n : b.jfval[i] = loc[r].dff[1][i]

\* A callback has returned the buffers of a 2 x 3 Jacobian whose first
\* column differs from its first row.
C13_Witness ==
  /\ InGj(0) /\ pc[0] = "solver" /\ ret[0] # <<>>
  /\ NCons = 2 /\ NVars = 3 /\ ret[0][1].jcnnz = 6
  /\ ret[0][1].jcval[2] # ret[0][1].jcval[4]

\* The entries the recording log of this solve holds.
Recorded ==
  IF fs[<<LogName, "bin">>] # <<>> /\ fs[<<LogName, "bin">>][1].src = LogName
    THEN fs[<<LogName, "bin">>][1].entries ELSE <<>>

\* C14: the objective and constraint values in the recording log are
\* real: a complex result is converted before it is written.
C14_LogHoldsRealValues ==
  \A k \in 1 .. Len(Recorded) :
    Recorded[k].id \in {"obj", "con"} =>
      \A i \in 1 .. Len(Recorded[k].v) : Recorded[k].v[i].im = 0

\* group_ids of rank r gives the groups of the problem, in vargroups order,
\* consecutive ranges from 0: each starts where the one before ends.
Consecutive(r) ==
  LET g == slv[r].group_ids
      vg == opt_problem[r].vargroups
  IN  /\ Len(g) = Len(vg)
      /\ \A k \in 1 .. Len(g) :
           /\ g[k].name = vg[k].name
           /\ g[k].a = (IF k = 1 THEN 0 ELSE g[k - 1].b)
           /\ g[k].b = g[k].a + vg[k].len
           /\ g[k].a < g[k].b

\* C15: once the setup is done, the group boundaries of a problem that
\* uses groups are consecutive half-open ranges from 0 in vargroups order,
\* without overlap or gap; and no step after the setup, callbacks
\* included, changes them.
C15_GroupBoundaries ==
  /\ [](\A r \in Ranks :
          (pc[r] \notin {"setup", "raised"} /\ opt_problem[r].use_groups) =>
            Consecutive(r))
  /\ [][\A r \in Ranks :
          pc[r] # "setup" => slv'[r].group_ids = slv[r].group_ids]_vars

\* An evalfc callback is running with two groups, the second of two
\* variables.
C15_Witness ==
  /\ pc[0] = "fc_branch" /\ Problem.use_groups
  /\ Len(slv[0].group_ids) = 2 /\ slv[0].group_ids[2].a = 1
  /\ slv[0].group_ids[2].b = 3

RECURSIVE Flattened(_, _)
\* The values of the first k groups of the mapping xg, one after another.
Flattened(xg, k) ==
  IF k = 0 THEN <<>> ELSE Flattened(xg, k - 1) \o xg[k].v

\* C16: in an evalfc callback, with groups in use the view xn maps every
\* group to the element of x it spans when it spans one index and to the
\* slice x[start:end] otherwise, and the group values one after another
\* are x; without groups xn is x.
C16_ExpansionRoundTrip ==
  \A r \in Ranks :
    (InFc(r) /\ "xn" \in loc[r].bound) =>
      LET x == Cur(r).x
          xn == loc[r].xn
          g == slv[r].group_ids
      IN  IF opt_problem[r].use_groups
            THEN /\ xn.grouped
                 /\ Len(xn.xg) = Len(g)
                 /\ \A k \in 1 .. Len(g) :
                      /\ xn.xg[k].name = g[k].name
                      /\ xn.xg[k].scalar <=> (g[k].b - g[k].a = 1)
                      /\ xn.xg[k].v = [i \in 1 .. g[k].b - g[k].a |-> x[g[k].a + i]]
                 /\ Flattened(xn.xg, Len(xn.xg)) = x
            ELSE ~xn.grouped /\ xn.x = x

\* The user objective has been handed a view with a group of one variable
\* and a group of two.
C16_Witness ==
  /\ InFc(0) /\ pc[0] = "fc_store" /\ calls[0] # <<>>
  /\ calls[0][1].xn.grouped /\ Len(calls[0][1].xn.xg) = 2
  /\ calls[0][1].xn.xg[1].scalar /\ ~calls[0][1].xn.xg[2].scalar

\* C17: when the setup is done, xl, xu and xx have the length n, the
\* number of registered variables, and until the solver overwrites xx
\* their i-th entries are the lower bound, the upper bound and the value of
\* the i-th variable.
C17_FlattenedVariables ==
  \A r \in Ranks :
    pc[r] \notin {"setup", "raised"} =>
      LET vs == opt_problem[r].variables
      IN  /\ slv[r].n = Len(vs)
          /\ Len(slv[r].xl) = slv[r].n
          /\ Len(slv[r].xu) = slv[r].n
          /\ Len(slv[r].xx) = slv[r].n
          /\ \A i \in 1 .. Len(vs) :
               /\ slv[r].xl[i] = vs[i].lower
               /\ slv[r].xu[i] = vs[i].upper
               /\ ~returned[r] => slv[r].xx[i] = vs[i].value

\* The solver is about to be called for a problem of three variables.
C17_Witness ==
  /\ pc[0] = "solver" /\ idx[0] = 0 /\ NVars = 3 /\ slv[0].n = 3
  /\ slv[0].xl[1] # slv[0].xl[3]

\* C18: in every evalfc and evalgjac callback flushFiles has been called
\* before the hot-start log is read and before the user objective or the
\* gradient engine is invoked.
C18_FlushBeforeEverything ==
  \A r \in Ranks :
    (pc[r] \in {"fc_read", "gj_read"} \/ (pc[r] \in CallbackPcs /\ calls[r] # <<>>))
      => loc[r].flushed

\* The snapshot the last step of __solve__ must store on rank r.
FinalSnapshot(r) ==
  LET p == opt_problem[r]
  IN  [variables |-> [i \in 1 .. Len(p.variables) |->
                        [p.variables[i] EXCEPT !.value = FinalX[i]]],
       objectives |-> <<[p.objectives[1] EXCEPT !.value = slv[r].ff[1]]>>,
       constraints |-> [j \in 1 .. Len(p.constraints) |->
                          [p.constraints[j] EXCEPT
                             !.value = ObjFun(FinalX).gg[j]]]]

\* C19: the last step of __solve__ leaves the variables, objectives and
\* constraints of the problem and the solutions stored before as they
\* were; with store_sol it stores, after those, one snapshot that holds
\* the variables with the final point, the objective with the solver's
\* final value and the constraints with their values at the final point;
\* without store_sol it stores none.  No other step changes the problem.
C19_SnapshotAppended ==
  [][\A r \in Ranks :
       LET p == opt_problem[r]
           q == opt_problem'[r]
       IN  IF pc[r] = "post" /\ pc'[r] = "done"
             THEN /\ q.variables = p.variables
                  /\ q.objectives = p.objectives
                  /\ q.constraints = p.constraints
                  /\ IF store_sol
                       THEN q.solutions = Append(p.solutions, FinalSnapshot(r))
                       ELSE q.solutions = p.solutions
             ELSE q = p]_vars

\* A solve with callbacks has stored its snapshot after an earlier one,
\* with a final point that is not the initial one.
C19_Witness ==
  /\ pc[0] = "done" /\ store_sol /\ idx[0] > 0 /\ FinalX # X0
  /\ Len(Problem.solutions) = 2
  /\ Problem.solutions[2].variables[1].value # Problem.variables[1].value

\* C20: when __solve__ returns after a solve for which a hot-start log was
\* opened, the hot-start handle has been closed exactly once.
C20_HandleClosedOnce ==
  (hot_start /\ pc[0] = "done") => hos_file.closes = 1

RECURSIVE GroupMarks(_)
\* What one group per callback, for the first n callbacks in their order,
\* looks like in the log: the identifiers, and the point under "x".
GroupMarks(n) ==
  IF n = 0 THEN <<>>
  ELSE GroupMarks(n - 1) \o
         (IF cbs[n].kind = "fc"
            THEN << [id |-> "x", x |-> cbs[n].x], [id |-> "obj", x |-> <<>>],
                    [id |-> "con", x |-> <<>>], [id |-> "fail", x |-> <<>>] >>
            ELSE << [id |-> "grad_obj", x |-> <<>>],
                    [id |-> "grad_con", x |-> <<>>] >>)

\* The same view of the entries a log holds, and of the recording log.
Marks(entries) ==
  [k \in 1 .. Len(entries) |->
     [id |-> entries[k].id,
      x |-> IF entries[k].id = "x" THEN entries[k].v ELSE <<>>]]

RecordedMarks == Marks(Recorded)

IsPrefix(s, t) == Len(s) <= Len(t) /\ s = SubSeq(t, 1, Len(s))

\* A step of a callback: a rank leaves a position inside evalfc or evalgjac.
CallbackStep == \E r \in Ranks : pc[r] \in CallbackPcs /\ pc'[r] # pc[r]

\* C21: recording is append-only and in callback order.  With recording
\* enabled, whenever rank 0 is back in the solver the recording log holds
\* exactly one group per callback that returned, in callback order: x, obj,
\* con, fail for an evalfc and grad_obj, grad_con for an evalgjac, whether
\* the callback replayed or evaluated; inside a callback the log holds the
\* groups of the callbacks before it and a part of its own; a step of a
\* callback leaves the log as it is or appends one entry to it, and changes
\* no other file.  With recording disabled no step of a callback changes a
\* file.
C21_RecordingAppendOnly ==
  /\ [](sto_hst =>
          /\ pc[0] = "solver" => RecordedMarks = GroupMarks(idx[0])
          /\ pc[0] \in CallbackPcs =>
                /\ IsPrefix(GroupMarks(idx[0] - 1), RecordedMarks)
                /\ IsPrefix(RecordedMarks, GroupMarks(idx[0])))
  /\ [][CallbackStep =>
          IF store_hst
            THEN \/ fs' = fs
                 \/ /\ Len(Recorded') = Len(Recorded) + 1
                    /\ fs' = Append2(fs, LogName, Recorded'[Len(Recorded')])
            ELSE fs' = fs]_vars

\* Rank 0 is back in the solver after an evalfc and an evalgjac that both
\* returned, and the recording log holds their two groups.
C21_Witness ==
  /\ sto_hst /\ pc[0] = "solver" /\ idx[0] = 2
  /\ cbs[1].kind = "fc" /\ cbs[2].kind = "gjac"
  /\ Len(Recorded) = 6 /\ Recorded[4].id = "fail"

\* The number of records this solve has replayed from the hot-start log.
Replayed == hos_file.fc + hos_file.gj

\* The canonical log is the promoted temporary log and holds one group per
\* callback of this solve, in callback order.
CanonicalHoldsRun ==
  /\ PairOf("hos", "hos_tmp")
  /\ Marks(fs[<<"hos", "bin">>][1].entries) = GroupMarks(idx[0])

\* C22: a run that records to the temporary log and has replayed a part of
\* the hot-start log goes on with live evaluation and does not lose the
\* replayed prefix: the solve is not aborted, and once it has finalized
\* and promoted the temporary log, the canonical log holds the records of
\* every evaluation of the run in order, the replayed ones followed by the
\* live ones.
C22_ReplayedPrefixKept ==
  (tmp_file /\ Replayed > 0) =>
     /\ pc[0] # "raised"
     /\ pc[0] = "done" => CanonicalHoldsRun

\* The history files as they were when __solve__ was entered: the
\* hot-start log if one was asked for, and nothing else.
FilesAtEntry ==
  [n \in Files |->
     IF n[1] = "hos" /\ hot_start
       THEN <<[src |-> "hos", entries |-> hist0]>> ELSE <<>>]

\* C23: a solve that the setup rejects, for an integer or discrete
\* variable or for a problem without constraints, leaves the history store
\* untouched: in every state of such a solve no recording, temporary or
\* hot-start log has been opened, and the history files are the ones that
\* were there when __solve__ was entered: none created, none removed.
C23_RejectedLeavesHistory ==
  Unsupported(Problem) =>
     /\ fs = FilesAtEntry
     /\ ~sto_hst /\ ~tmp_file
     /\ \A r \in Ranks : ~h_start[r]
====
